---- MODULE Spec2Model ----
(***************************************************************************)
(* Workspace lifecycle reconciliation of ws-manager-mk2: the status pass   *)
(* (updateWorkspaceStatus, extractFailure, extractFailureFromLogs), the    *)
(* timeout policy (isWorkspaceTimedOut) and the timeout reconciler         *)
(* (TimeoutReconciler.Reconcile), all of                                   *)
(* components/ws-manager-mk2/controllers/timeout_controller.go.            *)
(*                                                                         *)
(* Time is counted in units of 30 seconds.  A Go string that is a          *)
(* container's message is a sequence of chunks (see NL, Raw and Json);     *)
(* every other string is a TLA+ string.                                    *)
(***************************************************************************)
EXTENDS Integers, Sequences, FiniteSets, TLC

VARIABLES
    workspace,  \* the Workspace object (in Spec: as stored by the API server)
    pods,       \* the pod list matching the workspace's selector
    now,        \* the clock, what metav1.Now() and time.Since read
    pre,        \* the workspace object the last pass started from
    last,       \* what the last step was
    sr,         \* the Status Reconciler's pass in flight
    tr,         \* the Timeout Reconciler's pass in flight
    cfg         \* the configuration: the timeouts and the heartbeat interval

vars == <<workspace, pods, now, pre, last, sr, tr, cfg>>

(***************************************************************************)
(* Bounds of the model.                                                    *)
(***************************************************************************)
\* longest containerStatuses list of a pod
MaxContainers == 2
\* longest pod list handed to a status pass
MaxPods == 2
\* last clock value of the reconciler system
MaxTime == 3
\* last clock value the timeout policy is asked at, the 31 minutes apart
MaxElapsed == 4
\* most chunks of a log tail handed to extractFailureFromLogs
MaxLogChunks == 4
\* most status passes on one workspace while its pod changes
MaxPasses == 2
\* longest of the consecutive durations a reason is formatted for
MaxDuration == 130
\* most successful writes to the stored workspace object
MaxVersion == 2

(***************************************************************************)
(* Values.                                                                 *)
(***************************************************************************)
\* a nil *metav1.Time / *metav1.Duration
NoTime == -1

\* a nil *WorkspacePhase returned by extractFailure
NilPhase == "<nil>"

WorkspacePhasePending == "Pending"
WorkspacePhaseCreating == "Creating"
WorkspacePhaseInitializing == "Initializing"
WorkspacePhaseRunning == "Running"
WorkspacePhaseStopping == "Stopping"
WorkspacePhaseStopped == "Stopped"
WorkspacePhaseUnknown == "Unknown"

WorkspacePhases ==
    { "", WorkspacePhasePending, WorkspacePhaseCreating, WorkspacePhaseInitializing,
      WorkspacePhaseRunning, WorkspacePhaseStopping, WorkspacePhaseStopped,
      WorkspacePhaseUnknown }

PodPhases == {"Pending", "Running", "Succeeded", "Failed", "Unknown"}

containerKilledExitCode == 137
containerUnknownExitCode == 255

\* the disposal finalizer a workspace pod carries once it runs
gitpodPodFinalizerName == "gitpod.io/finalizer"

MultiplePodsMessage == "multiple pods exists - this should never happen"

(***************************************************************************)
(* Conditions (metav1.Condition) and the condition set primitives.         *)
(***************************************************************************)
Condition(tpe, status, t, message, reason) ==
    [type |-> tpe, status |-> status, lastTransitionTime |-> t,
     message |-> message, reason |-> reason]

\* index of the first condition of the type, 0 when there is none
IndexOfType(conds, tpe) ==
    IF \E i \in 1..Len(conds) : conds[i].type = tpe
    THEN CHOOSE i \in 1..Len(conds) :
            /\ conds[i].type = tpe
            /\ \A j \in 1..(i-1) : conds[j].type # tpe
    ELSE 0

conditionPresentAndTrue(conds, tpe) ==
    LET i == IndexOfType(conds, tpe)
    IN  i # 0 /\ conds[i].status = "True"

conditionWithStatusAndReson(conds, tpe, status, reason) ==
    \E i \in 1..Len(conds) :
        /\ conds[i].type = tpe
        /\ conds[i].status = (IF status THEN "True" ELSE "False")
        /\ conds[i].reason = reason

\* Upsert keyed by type: a condition of a new type is appended; one of a type
\* already there with the same status and message changes nothing (no new
\* timestamp); otherwise it takes the place of the one of its type.
AddUniqueCondition(conds, cond) ==
    LET i == IndexOfType(conds, cond.type)
    IN  IF i = 0 THEN Append(conds, cond)
        ELSE IF conds[i].status = cond.status /\ conds[i].message = cond.message
             THEN conds
             ELSE [conds EXCEPT ![i] = cond]

GetCondition(conds, tpe) == conds[IndexOfType(conds, tpe)]

(***************************************************************************)
(* Termination messages: a byte string cut into chunks.  A chunk is a      *)
(* newline, a JSON object (with the members the decoder reads) or text     *)
(* that is no JSON.                                                        *)
(***************************************************************************)
NL == [kind |-> "nl", text |-> "\n", hasMessage |-> FALSE, message |-> "",
       hasError |-> FALSE, error |-> ""]

Raw(text) == [kind |-> "raw", text |-> text, hasMessage |-> FALSE, message |-> "",
              hasError |-> FALSE, error |-> ""]

Json(text, hasMessage, message, hasError, error) ==
    [kind |-> "json", text |-> text, hasMessage |-> hasMessage, message |-> message,
     hasError |-> hasError, error |-> error]

\* string(logs)
RECURSIVE BytesToString(_)
BytesToString(logs) ==
    IF logs = <<>> THEN "" ELSE Head(logs).text \o BytesToString(Tail(logs))

\* bytes.LastIndex(logs[:n], "\n"), 0-based, -1 when there is none
RECURSIVE LastIndexNL(_, _)
LastIndexNL(logs, n) ==
    IF n = 0 THEN -1
    ELSE IF logs[n].kind = "nl" THEN n - 1
    ELSE LastIndexNL(logs, n - 1)

\* logs[from:to], 0-based and half open
Slice(logs, from, to) == SubSeq(logs, from + 1, to)

\* json.Unmarshal(line, &msg): the line decodes when, apart from white space,
\* it is one JSON object; members the object lacks keep what msg held.
Unmarshal(line, msg) ==
    LET body == SelectSeq(line, LAMBDA c : c.kind # "nl")
    IN  IF Len(body) = 1 /\ body[1].kind = "json"
        THEN [ok |-> TRUE,
              msg |-> [Message |-> IF body[1].hasMessage THEN body[1].message
                                   ELSE msg.Message,
                       Error |-> IF body[1].hasError THEN body[1].error
                                 ELSE msg.Error]]
        ELSE [ok |-> FALSE, msg |-> msg]

RECURSIVE scanLogs(_, _, _)
scanLogs(logs, idx, msg) ==
    IF ~(idx > 0) THEN BytesToString(logs)
    ELSE LET n == LastIndexNL(logs, idx)
             nidx == IF n < 0 THEN 0 ELSE n
             line == Slice(logs, nidx, idx)
             u == Unmarshal(line, msg)
         IN  IF ~u.ok THEN scanLogs(logs, nidx, u.msg)
             ELSE IF u.msg.Message = "" THEN scanLogs(logs, nidx, u.msg)
             ELSE IF u.msg.Error = "" THEN u.msg.Message
             ELSE u.msg.Message \o ": " \o u.msg.Error

extractFailureFromLogs(logs) ==
    scanLogs(logs, LastIndexNL(logs, Len(logs)), [Message |-> "", Error |-> ""])

(***************************************************************************)
(* Pods (corev1.Pod) and container statuses.                               *)
(***************************************************************************)
NoState == [kind |-> "none", reason |-> "", message |-> <<>>, exitCode |-> 0]

Waiting(reason, message) ==
    [kind |-> "waiting", reason |-> reason, message |-> message, exitCode |-> 0]

RunningState == [kind |-> "running", reason |-> "", message |-> <<>>, exitCode |-> 0]

Terminated(exitCode, reason, message) ==
    [kind |-> "terminated", reason |-> reason, message |-> message,
     exitCode |-> exitCode]

ContainerStatus(name, ready, state, lastTerminationState) ==
    [name |-> name, ready |-> ready, state |-> state,
     lastTerminationState |-> lastTerminationState]

\* isPodBeingDeleted returns true if the pod is currently being deleted
isPodBeingDeleted(pod) == pod.deletionTimestamp # NoTime

(***************************************************************************)
(* extractFailure returns a pod failure reason and possibly a phase.       *)
(***************************************************************************)
NoFailure == [failure |-> "", phase |-> NilPhase]

\* containerFailure taking a completed container for the end of a headless
\* workspace, whatever the workspace is
containerFailure_CompletedIsFine(ws, pod, cs) ==
    LET terminationState ==
            IF cs.state.kind = "terminated" THEN cs.state
            ELSE cs.lastTerminationState
    IN  IF /\ cs.state.kind = "waiting"
           /\ cs.state.reason \in {"ImagePullBackOff", "ErrImagePull"}
        THEN [done |-> TRUE,
              failure |-> "cannot pull image: " \o BytesToString(cs.state.message),
              phase |-> IF isPodBeingDeleted(pod) THEN NilPhase
                        ELSE WorkspacePhaseCreating]
        ELSE IF terminationState.kind # "terminated"
        THEN [done |-> FALSE, failure |-> "", phase |-> NilPhase]
        ELSE IF terminationState.exitCode # 0 /\ terminationState.message # <<>>
        THEN [done |-> TRUE,
              failure |-> extractFailureFromLogs(terminationState.message),
              phase |-> IF ~isPodBeingDeleted(pod) THEN WorkspacePhaseRunning
                        ELSE ""]
        ELSE IF terminationState.reason = "Error"
        THEN IF /\ ~isPodBeingDeleted(pod)
                /\ terminationState.exitCode # containerKilledExitCode
             THEN [done |-> TRUE,
                   failure |-> "container " \o cs.name
                               \o " ran with an error: exit code "
                               \o ToString(terminationState.exitCode),
                   phase |-> WorkspacePhaseRunning]
             ELSE [done |-> FALSE, failure |-> "", phase |-> NilPhase]
        ELSE IF terminationState.reason = "Completed" /\ ~isPodBeingDeleted(pod)
        THEN [done |-> TRUE, failure |-> "", phase |-> NilPhase]
        ELSE IF /\ ~isPodBeingDeleted(pod)
                /\ terminationState.exitCode # containerUnknownExitCode
        THEN [done |-> TRUE,
              failure |-> "workspace container " \o cs.name
                          \o " terminated for an unknown reason: ("
                          \o terminationState.reason \o ") "
                          \o BytesToString(terminationState.message),
              phase |-> WorkspacePhaseUnknown]
        ELSE [done |-> FALSE, failure |-> "", phase |-> NilPhase]

\* what one round of the loop over the container statuses does: returns
\* (done) or goes on to the next container status
containerFailure(ws, pod, cs) ==
    LET terminationState ==
            IF cs.state.kind = "terminated" THEN cs.state
            ELSE cs.lastTerminationState
    IN  IF /\ cs.state.kind = "waiting"
           /\ cs.state.reason \in {"ImagePullBackOff", "ErrImagePull"}
        THEN [done |-> TRUE,
              failure |-> "cannot pull image: " \o BytesToString(cs.state.message),
              phase |-> IF isPodBeingDeleted(pod) THEN NilPhase
                        ELSE WorkspacePhaseCreating]
        ELSE IF terminationState.kind # "terminated"
        THEN [done |-> FALSE, failure |-> "", phase |-> NilPhase]
        ELSE IF terminationState.exitCode # 0 /\ terminationState.message # <<>>
        THEN [done |-> TRUE,
              failure |-> extractFailureFromLogs(terminationState.message),
              phase |-> IF ~isPodBeingDeleted(pod) THEN WorkspacePhaseRunning
                        ELSE ""]
        ELSE IF terminationState.reason = "Error"
        THEN IF /\ ~isPodBeingDeleted(pod)
                /\ terminationState.exitCode # containerKilledExitCode
             THEN [done |-> TRUE,
                   failure |-> "container " \o cs.name
                               \o " ran with an error: exit code "
                               \o ToString(terminationState.exitCode),
                   phase |-> WorkspacePhaseRunning]
             ELSE [done |-> FALSE, failure |-> "", phase |-> NilPhase]
        ELSE IF terminationState.reason = "Completed" /\ ~isPodBeingDeleted(pod)
        THEN IF ws.headless
             THEN [done |-> TRUE, failure |-> "", phase |-> NilPhase]
             ELSE [done |-> TRUE,
                   failure |-> "container " \o cs.name
                               \o " completed; containers of a workspace pod are not supposed to do that",
                   phase |-> NilPhase]
        ELSE IF /\ ~isPodBeingDeleted(pod)
                /\ terminationState.exitCode # containerUnknownExitCode
        THEN [done |-> TRUE,
              failure |-> "workspace container " \o cs.name
                          \o " terminated for an unknown reason: ("
                          \o terminationState.reason \o ") "
                          \o BytesToString(terminationState.message),
              phase |-> WorkspacePhaseUnknown]
        ELSE [done |-> FALSE, failure |-> "", phase |-> NilPhase]

RECURSIVE scanContainerStatuses(_, _, _)
scanContainerStatuses(ws, pod, i) ==
    IF i > Len(pod.containerStatuses) THEN NoFailure
    ELSE LET r == containerFailure(ws, pod, pod.containerStatuses[i])
         IN  IF r.done THEN [failure |-> r.failure, phase |-> r.phase]
             ELSE scanContainerStatuses(ws, pod, i + 1)

\* extractFailure looking at the container statuses before the pod
extractFailure_ContainersFirst(ws, pod) ==
    LET r == scanContainerStatuses(ws, pod, 1)
    IN  IF r.failure # "" THEN r
        ELSE IF pod.phase = "Failed" /\ (pod.reason # "" \/ pod.message # "")
        THEN [failure |-> pod.reason \o ": " \o pod.message, phase |-> NilPhase]
        ELSE r

extractFailure(ws, pod) ==
    IF pod.phase = "Failed" /\ (pod.reason # "" \/ pod.message # "")
    THEN [failure |-> pod.reason \o ": " \o pod.message, phase |-> NilPhase]
    ELSE scanContainerStatuses(ws, pod, 1)

(***************************************************************************)
(* updateWorkspaceStatus: the status pass on a workspace object and the    *)
(* pod list, at clock value t.                                             *)
(***************************************************************************)
\* fillRuntime taking whatever the pod reports last
fillRuntime_LastWins(runtime, pod) ==
    [nil |-> FALSE,
     nodeName |-> IF pod.nodeName # "" THEN pod.nodeName ELSE runtime.nodeName,
     hostIP |-> IF pod.hostIP # "" THEN pod.hostIP ELSE runtime.hostIP,
     podIP |-> IF pod.podIP # "" THEN pod.podIP ELSE runtime.podIP,
     podName |-> IF pod.name # "" THEN pod.name ELSE runtime.podName]

\* lines 175-189: the runtime status takes what the pod reports where it is
\* still empty
fillRuntime(runtime, pod) ==
    [nil |-> FALSE,
     nodeName |-> IF runtime.nodeName = "" /\ pod.nodeName # ""
                  THEN pod.nodeName ELSE runtime.nodeName,
     hostIP |-> IF runtime.hostIP = "" /\ pod.hostIP # ""
                THEN pod.hostIP ELSE runtime.hostIP,
     podIP |-> IF runtime.podIP = "" /\ pod.podIP # ""
               THEN pod.podIP ELSE runtime.podIP,
     podName |-> IF runtime.podName = "" /\ pod.name # ""
                 THEN pod.name ELSE runtime.podName]

\* isCreating with ImagePullBackOff left out of the reasons
isCreating_NoBackOff(pod) ==
    \E i \in 1..Len(pod.containerStatuses) :
        /\ pod.containerStatuses[i].state.kind = "waiting"
        /\ pod.containerStatuses[i].state.reason \in
               {"ContainerCreating", "ErrImagePull"}

\* lines 233-251: some container is waiting to be created or for its image
isCreating(pod) ==
    \E i \in 1..Len(pod.containerStatuses) :
        /\ pod.containerStatuses[i].state.kind = "waiting"
        /\ pod.containerStatuses[i].state.reason \in
               {"ContainerCreating", "ImagePullBackOff", "ErrImagePull"}

\* isReady asking every container to be ready
isReady_All(pod) ==
    \A i \in 1..Len(pod.containerStatuses) : pod.containerStatuses[i].ready

\* lines 254-260: some container is ready
isReady(pod) ==
    \E i \in 1..Len(pod.containerStatuses) : pod.containerStatuses[i].ready

\* lines 210-216
hasFinalizer(pod) == gitpodPodFinalizerName \in pod.finalizers

\* lines 218-220: the backup or the content initialisation has ended
disposalEnded(conds) ==
    \/ conditionPresentAndTrue(conds, "BackupComplete")
    \/ conditionPresentAndTrue(conds, "BackupFailure")
    \/ conditionWithStatusAndReson(conds, "ContentReady", FALSE, "InitializationFailure")

\* phaseOfDeletedPod waiting for the disposal also without the finalizer
phaseOfDeletedPod_AlwaysWaits(ws, pod) ==
    IF disposalEnded(ws.conditions) THEN WorkspacePhaseStopped
    ELSE WorkspacePhaseStopping

\* phaseOfDeletedPod not counting a failed backup as an end of the disposal
phaseOfDeletedPod_NoBackupFailure(ws, pod) ==
    IF hasFinalizer(pod)
    THEN IF \/ conditionPresentAndTrue(ws.conditions, "BackupComplete")
            \/ conditionWithStatusAndReson(ws.conditions, "ContentReady",
                                           FALSE, "InitializationFailure")
         THEN WorkspacePhaseStopped
         ELSE WorkspacePhaseStopping
    ELSE WorkspacePhaseStopped

\* lines 207-230: the phase of a workspace whose pod is being deleted
phaseOfDeletedPod(ws, pod) ==
    IF hasFinalizer(pod)
    THEN IF disposalEnded(ws.conditions) THEN WorkspacePhaseStopped
         ELSE WorkspacePhaseStopping
    ELSE WorkspacePhaseStopped

\* phaseOfLivePod without the case of the headless workspace
phaseOfLivePod_NoHeadlessCase(ws, pod) ==
    IF pod.phase = "Pending"
    THEN IF isCreating(pod) THEN WorkspacePhaseCreating ELSE WorkspacePhasePending
    ELSE IF pod.phase = "Running"
    THEN IF isReady(pod) THEN WorkspacePhaseRunning ELSE WorkspacePhaseInitializing
    ELSE WorkspacePhaseUnknown

\* lines 232-279: the phase of a workspace whose pod is not being deleted
phaseOfLivePod(ws, pod) ==
    IF pod.phase = "Pending"
    THEN IF isCreating(pod) THEN WorkspacePhaseCreating ELSE WorkspacePhasePending
    ELSE IF pod.phase = "Running"
    THEN IF isReady(pod) THEN WorkspacePhaseRunning ELSE WorkspacePhaseInitializing
    ELSE IF ws.headless /\ pod.phase \in {"Succeeded", "Failed"}
    THEN WorkspacePhaseStopping
    ELSE IF pod.phase = "Unknown" THEN WorkspacePhaseUnknown
    ELSE WorkspacePhaseUnknown

\* phaseOfPod looking at the pod phases Pending and Running before the deletion
phaseOfPod_PodPhaseFirst(ws, pod) ==
    IF pod.phase \in {"Pending", "Running"} THEN phaseOfLivePod(ws, pod)
    ELSE IF isPodBeingDeleted(pod) THEN phaseOfDeletedPod(ws, pod)
    ELSE phaseOfLivePod(ws, pod)

\* lines 206-279: the phase the switch assigns, its cases tried in order
phaseOfPod(ws, pod) ==
    IF isPodBeingDeleted(pod) THEN phaseOfDeletedPod(ws, pod)
    ELSE phaseOfLivePod(ws, pod)

\* statusNoPods forgetting that the workspace ever had a pod
statusNoPods_ForgetsPod(ws) ==
    LET p1 == IF ws.phase = "" THEN WorkspacePhasePending ELSE ws.phase
    IN  [ws EXCEPT !.phase = IF p1 # WorkspacePhasePending
                             THEN WorkspacePhaseStopped ELSE p1,
                   !.conditions = SelectSeq(@, LAMBDA c : c.type # "Deployed")]

\* statusNoPods without its second test
statusNoPods_KeepsPhase(ws) ==
    [ws EXCEPT !.phase = IF ws.phase = "" THEN WorkspacePhasePending ELSE ws.phase]

\* lines 143-152
statusNoPods(ws) ==
    LET p1 == IF ws.phase = "" THEN WorkspacePhasePending ELSE ws.phase
    IN  [ws EXCEPT !.phase = IF p1 # WorkspacePhasePending
                             THEN WorkspacePhaseStopped ELSE p1]

\* statusMultiplePods giving up on the phase as well
statusMultiplePods_Unknown(ws, t) ==
    [ws EXCEPT !.phase = WorkspacePhaseUnknown,
               !.conditions =
                    AddUniqueCondition(ws.conditions,
                        Condition("Failed", "True", t, MultiplePodsMessage, ""))]

\* statusMultiplePods appending the condition whatever the list holds
statusMultiplePods_Append(ws, t) ==
    [ws EXCEPT !.conditions =
        Append(ws.conditions, Condition("Failed", "True", t, MultiplePodsMessage, ""))]

\* lines 155-165
statusMultiplePods(ws, t) ==
    [ws EXCEPT !.conditions =
        AddUniqueCondition(ws.conditions,
            Condition("Failed", "True", t, MultiplePodsMessage, ""))]

\* statusOnePod keeping the phase extractFailure hands back
statusOnePod_KeepsForcedPhase(ws, pod, t) ==
    LET deployed == AddUniqueCondition(ws.conditions,
                        Condition("Deployed", "True", t, "", ""))
        runtime == fillRuntime(ws.runtime, pod)
        w1 == [ws EXCEPT !.conditions = deployed, !.runtime = runtime]
        f == extractFailure(w1, pod)
        w2 == IF f.phase # NilPhase THEN [w1 EXCEPT !.phase = f.phase] ELSE w1
        w3 == IF f.failure # "" /\ ~conditionPresentAndTrue(w2.conditions, "Failed")
              THEN [w2 EXCEPT !.conditions =
                        AddUniqueCondition(w2.conditions,
                            Condition("Failed", "True", t, f.failure, ""))]
              ELSE w2
    IN  IF f.phase # NilPhase THEN w3 ELSE [w3 EXCEPT !.phase = phaseOfPod(w3, pod)]

\* lines 167-281
statusOnePod(ws, pod, t) ==
    LET deployed == AddUniqueCondition(ws.conditions,
                        Condition("Deployed", "True", t, "", ""))
        runtime == fillRuntime(ws.runtime, pod)
        w1 == [ws EXCEPT !.conditions = deployed, !.runtime = runtime]
        f == extractFailure(w1, pod)
        w2 == IF f.phase # NilPhase THEN [w1 EXCEPT !.phase = f.phase] ELSE w1
        w3 == IF f.failure # "" /\ ~conditionPresentAndTrue(w2.conditions, "Failed")
              THEN [w2 EXCEPT !.conditions =
                        AddUniqueCondition(w2.conditions,
                            Condition("Failed", "True", t, f.failure, ""))]
              ELSE w2
    IN  [w3 EXCEPT !.phase = phaseOfPod(w3, pod)]

updateWorkspaceStatus(ws, podList, t) ==
    IF Len(podList) = 0 THEN statusNoPods(ws)
    ELSE IF Len(podList) = 1 THEN statusOnePod(ws, podList[1], t)
    ELSE statusMultiplePods(ws, t)

(***************************************************************************)
(* isWorkspaceTimedOut: the timeout policy, at clock value t.              *)
(***************************************************************************)
activityInit == "initialization"
activityStartup == "startup"
activityCreatingContainers == "creating containers"
activityRunningHeadless == "running the headless workspace"
activityNone == "period of inactivity"
activityMaxLifetime == "maximum lifetime"
activityClosed == "after being closed"
activityStopping == "stopping"
activityBackup == "backup"

\* Pad2 without the padding
Pad2_Unpadded(n) == ToString(n)

\* fmt's %02d
Pad2(n) == IF n < 10 THEN "0" \o ToString(n) ELSE ToString(n)

\* d.Round(time.Minute) in minutes, for d >= 0 in units of 30 seconds:
\* half a minute rounds up
RoundToMinutes(d) == (d + 1) \div 2

formatDuration(d) ==
    LET minutes == RoundToMinutes(d)
        h == minutes \div 60
        m == minutes - h * 60
    IN  Pad2(h) \o "h" \o Pad2(m) \o "m"

\* decide timing out only after the timeout has been exceeded
decide_Late(start, timeout, activity, t) ==
    LET inactivity == t - start
    IN  IF inactivity <= timeout THEN ""
        ELSE "workspace timed out after " \o activity \o " ("
             \o formatDuration(inactivity) \o ") took longer than "
             \o formatDuration(timeout)

\* lines 423-431
decide(start, timeout, activity, t) ==
    LET inactivity == t - start
    IN  IF inactivity < timeout THEN ""
        ELSE "workspace timed out after " \o activity \o " ("
             \o formatDuration(inactivity) \o ") took longer than "
             \o formatDuration(timeout)

\* getWorkspaceActivity finding no activity
getWorkspaceActivity_Never(ws) == NoTime

\* the time of the first UserActivity condition, NoTime when there is none
getWorkspaceActivity(ws) ==
    LET i == IndexOfType(ws.conditions, "UserActivity")
    IN  IF i = 0 THEN NoTime ELSE ws.conditions[i].lastTransitionTime

\* timedOutRunning looking at the maximum lifetime after its other rules
timedOutRunning_LifetimeLast(ws, timeouts, t) ==
    LET start == ws.creationTimestamp
        lastActivity == getWorkspaceActivity(ws)
        isClosed == conditionPresentAndTrue(ws.conditions, "Closed")
        maxLifetime == decide(start, timeouts.MaxLifetime, activityMaxLifetime, t)
        custom(timeout) == IF ws.timeout # NoTime THEN ws.timeout ELSE timeout
        other ==
            IF ws.headless
            THEN decide(start, custom(timeouts.HeadlessWorkspace), activityRunningHeadless, t)
            ELSE IF lastActivity = NoTime
            THEN decide(start, timeouts.TotalStartup, activityNone, t)
            ELSE IF isClosed
            THEN decide(lastActivity, timeouts.AfterClose, activityClosed, t)
            ELSE decide(lastActivity, custom(timeouts.RegularWorkspace), activityNone, t)
    IN  IF other # "" THEN other ELSE maxLifetime

\* timedOutRunning applying the custom timeout to a closed workspace too
timedOutRunning_CustomAfterClose(ws, timeouts, t) ==
    LET start == ws.creationTimestamp
        lastActivity == getWorkspaceActivity(ws)
        isClosed == conditionPresentAndTrue(ws.conditions, "Closed")
        maxLifetime == decide(start, timeouts.MaxLifetime, activityMaxLifetime, t)
        custom(timeout) == IF ws.timeout # NoTime THEN ws.timeout ELSE timeout
    IN  IF maxLifetime # "" THEN maxLifetime
        ELSE IF ws.headless
        THEN decide(start, custom(timeouts.HeadlessWorkspace), activityRunningHeadless, t)
        ELSE IF lastActivity = NoTime
        THEN decide(start, timeouts.TotalStartup, activityNone, t)
        ELSE IF isClosed
        THEN decide(lastActivity, custom(timeouts.AfterClose), activityClosed, t)
        ELSE decide(lastActivity, custom(timeouts.RegularWorkspace), activityNone, t)

\* timedOutRunning asking whether the workspace is closed before asking
\* whether it has ever been active
timedOutRunning_ClosedFirst(ws, timeouts, t) ==
    LET start == ws.creationTimestamp
        lastActivity == getWorkspaceActivity(ws)
        isClosed == conditionPresentAndTrue(ws.conditions, "Closed")
        maxLifetime == decide(start, timeouts.MaxLifetime, activityMaxLifetime, t)
        custom(timeout) == IF ws.timeout # NoTime THEN ws.timeout ELSE timeout
    IN  IF maxLifetime # "" THEN maxLifetime
        ELSE IF ws.headless
        THEN decide(start, custom(timeouts.HeadlessWorkspace), activityRunningHeadless, t)
        ELSE IF isClosed
        THEN decide(IF lastActivity = NoTime THEN start ELSE lastActivity,
                    timeouts.AfterClose, activityClosed, t)
        ELSE IF lastActivity = NoTime
        THEN decide(start, timeouts.TotalStartup, activityNone, t)
        ELSE decide(lastActivity, custom(timeouts.RegularWorkspace), activityNone, t)

\* lines 453-474
timedOutRunning(ws, timeouts, t) ==
    LET start == ws.creationTimestamp
        lastActivity == getWorkspaceActivity(ws)
        isClosed == conditionPresentAndTrue(ws.conditions, "Closed")
        maxLifetime == decide(start, timeouts.MaxLifetime, activityMaxLifetime, t)
        custom(timeout) == IF ws.timeout # NoTime THEN ws.timeout ELSE timeout
    IN  IF maxLifetime # "" THEN maxLifetime
        ELSE IF ws.headless
        THEN decide(start, custom(timeouts.HeadlessWorkspace), activityRunningHeadless, t)
        ELSE IF lastActivity = NoTime
        THEN decide(start, timeouts.TotalStartup, activityNone, t)
        ELSE IF isClosed
        THEN decide(lastActivity, timeouts.AfterClose, activityClosed, t)
        ELSE decide(lastActivity, custom(timeouts.RegularWorkspace), activityNone, t)

\* timedOutStopping without the longer timeout of a finished backup
timedOutStopping_NoBackupCase(ws, pod, timeouts, t) ==
    IF ~isPodBeingDeleted(pod) THEN ""
    ELSE decide(pod.deletionTimestamp, timeouts.Stopping, activityStopping, t)

\* lines 476-486
timedOutStopping(ws, pod, timeouts, t) ==
    IF /\ isPodBeingDeleted(pod)
       /\ conditionPresentAndTrue(ws.conditions, "BackupComplete")
    THEN decide(pod.deletionTimestamp, timeouts.ContentFinalization, activityBackup, t)
    ELSE IF ~isPodBeingDeleted(pod) THEN ""
    ELSE decide(pod.deletionTimestamp, timeouts.Stopping, activityStopping, t)

\* isWorkspaceTimedOut treating Stopped like Stopping
isWorkspaceTimedOut_StoppedToo(ws, pod, timeouts, t) ==
    LET start == ws.creationTimestamp
    IN  IF ws.phase = WorkspacePhasePending
        THEN decide(start, timeouts.Initialization, activityInit, t)
        ELSE IF ws.phase = WorkspacePhaseInitializing
        THEN decide(start, timeouts.TotalStartup, activityStartup, t)
        ELSE IF ws.phase = WorkspacePhaseCreating
        THEN decide(start, timeouts.TotalStartup, activityCreatingContainers, t)
        ELSE IF ws.phase = WorkspacePhaseRunning
        THEN timedOutRunning(ws, timeouts, t)
        ELSE IF ws.phase \in {WorkspacePhaseStopping, WorkspacePhaseStopped}
        THEN timedOutStopping(ws, pod, timeouts, t)
        ELSE ""

isWorkspaceTimedOut(ws, pod, timeouts, t) ==
    LET start == ws.creationTimestamp
    IN  IF ws.phase = WorkspacePhasePending
        THEN decide(start, timeouts.Initialization, activityInit, t)
        ELSE IF ws.phase = WorkspacePhaseInitializing
        THEN decide(start, timeouts.TotalStartup, activityStartup, t)
        ELSE IF ws.phase = WorkspacePhaseCreating
        THEN decide(start, timeouts.TotalStartup, activityCreatingContainers, t)
        ELSE IF ws.phase = WorkspacePhaseRunning
        THEN timedOutRunning(ws, timeouts, t)
        ELSE IF ws.phase = WorkspacePhaseStopping
        THEN timedOutStopping(ws, pod, timeouts, t)
        ELSE ""

(***************************************************************************)
(* The inputs of the status pass: pods and workspaces.                     *)
(***************************************************************************)
\* termination messages: a log tail whose last line is a record, and text
LogTails ==
    { <<Json("{\"message\":\"boom\",\"error\":\"x\"}", TRUE, "boom", TRUE, "x"), NL>>,
      <<Raw("out of disk")>> }

TerminationStates ==
    {Terminated(1, "Error", m) : m \in LogTails}
    \cup { Terminated(1, "Error", <<>>),
           Terminated(containerKilledExitCode, "Error", <<>>),
           Terminated(0, "Completed", <<>>),
           Terminated(containerKilledExitCode, "OOMKilled", <<>>),
           Terminated(containerUnknownExitCode, "Unknown", <<>>) }

\* container statuses a list of several is made of
CommonContainerStatuses ==
    { ContainerStatus("workspace", FALSE, Waiting("ContainerCreating", <<>>), NoState),
      ContainerStatus("workspace", FALSE,
                      Waiting("ImagePullBackOff", <<Raw("back-off pulling image")>>),
                      NoState),
      ContainerStatus("workspace", TRUE, RunningState, NoState),
      ContainerStatus("workspace", FALSE, RunningState, NoState),
      ContainerStatus("workspace", FALSE,
                      Terminated(1, "Error", <<Raw("out of disk")>>), NoState) }

ContainerStatuses ==
    CommonContainerStatuses
    \cup { ContainerStatus("workspace", FALSE,
                           Waiting("ErrImagePull", <<Raw("manifest unknown")>>), NoState),
           ContainerStatus("workspace", FALSE, Waiting("CrashLoopBackOff", <<>>),
                           NoState),
           ContainerStatus("workspace", TRUE, RunningState,
                           Terminated(1, "Error", <<Raw("out of disk")>>)) }
    \cup {ContainerStatus("workspace", FALSE, s, NoState) : s \in TerminationStates}

RECURSIVE SeqsUpTo(_, _)
SeqsUpTo(S, n) ==
    IF n = 0 THEN {<<>>}
    ELSE LET shorter == SeqsUpTo(S, n - 1)
         IN  shorter \cup {Append(q, x) : q \in shorter, x \in S}

ContainerStatusLists ==
    {<<c>> : c \in ContainerStatuses} \cup SeqsUpTo(CommonContainerStatuses, MaxContainers)

\* pod status phase with the pod's reason and message
PodStatuses ==
    {[phase |-> p, reason |-> "", message |-> ""] : p \in PodPhases}
    \cup {[phase |-> "Failed", reason |-> "Evicted", message |-> "node low on memory"]}

Pod(deletionTimestamp, finalizers, status, containerStatuses) ==
    [deletionTimestamp |-> deletionTimestamp, finalizers |-> finalizers,
     phase |-> status.phase, reason |-> status.reason, message |-> status.message,
     containerStatuses |-> containerStatuses,
     name |-> "ws-pod",
     nodeName |-> IF containerStatuses = <<>> THEN "" ELSE "node-1",
     hostIP |-> IF containerStatuses = <<>> THEN "" ELSE "10.0.0.1",
     podIP |-> IF containerStatuses = <<>> THEN "" ELSE "10.1.0.1"]

Pods ==
    { Pod(d, f, s, cs) : d \in {NoTime, 0}, f \in {{}, {gitpodPodFinalizerName}},
                         s \in PodStatuses, cs \in ContainerStatusLists }

\* the pods of a pod list that breaks the one-pod-per-workspace rule
ExtraPods ==
    { Pod(NoTime, {}, [phase |-> "Pending", reason |-> "", message |-> ""], <<>>),
      Pod(NoTime, {gitpodPodFinalizerName},
          [phase |-> "Running", reason |-> "", message |-> ""],
          <<ContainerStatus("workspace", TRUE, RunningState, NoState)>>) }

PodLists ==
    {<<>>} \cup {<<p>> : p \in Pods}
    \cup {l \in SeqsUpTo(ExtraPods, MaxPods) : Len(l) >= 2}

NilRuntime == [nil |-> TRUE, nodeName |-> "", hostIP |-> "", podIP |-> "", podName |-> ""]

\* condition lists a workspace may carry when a status pass starts
ConditionLists ==
    LET Deployed == Condition("Deployed", "True", 0, "", "")
    IN  { <<>>,
          <<Deployed>>,
          <<Deployed, Condition("Failed", "True", 0, "earlier failure", "")>>,
          <<Deployed, Condition("BackupComplete", "True", 0, "", "")>>,
          <<Deployed, Condition("BackupComplete", "False", 0, "", "")>>,
          <<Deployed, Condition("BackupFailure", "True", 0, "disk full", "")>>,
          <<Deployed, Condition("ContentReady", "False", 0, "", "InitializationFailure")>>,
          <<Deployed, Condition("ContentReady", "False", 0, "", "")>>,
          <<Deployed, Condition("UserActivity", "True", 0, "", ""),
            Condition("Closed", "True", 0, "", ""),
            Condition("Timeout", "True", 0, "timed out earlier", "")>> }

Workspace(phase, headless, conditions) ==
    [phase |-> phase, headless |-> headless, conditions |-> conditions,
     runtime |-> NilRuntime, creationTimestamp |-> 0, timeout |-> NoTime,
     resourceVersion |-> 0]

Workspaces ==
    {Workspace(p, h, c) : p \in WorkspacePhases, h \in BOOLEAN, c \in ConditionLists}

\* no pass in flight
Idle == [pc |-> "idle", ws |-> Workspace("", FALSE, <<>>)]

\* a pass that has read the workspace
Got(ws) == [pc |-> "got", ws |-> ws]

\* the record of a step: the operation and how it ended
Step(op, outcome) == [op |-> op, outcome |-> outcome]

\* the timeouts, in units of 30 seconds, and the heartbeat interval
Configuration ==
    [Initialization |-> 1, TotalStartup |-> 2, RegularWorkspace |-> 1,
     HeadlessWorkspace |-> 2, MaxLifetime |-> 3, AfterClose |-> 1,
     Stopping |-> 1, ContentFinalization |-> 2, HeartbeatInterval |-> 2]

(***************************************************************************)
(* SpecStatus: updateWorkspaceStatus as a function.  It is applied to any  *)
(* workspace and pod list, and once more to its result and the same pod    *)
(* list.                                                                   *)
(***************************************************************************)
InitStatus ==
    /\ workspace \in Workspaces
    /\ pods \in PodLists
    /\ now = 1
    /\ pre = workspace
    /\ last = Step("init", "")
    /\ sr = Idle
    /\ tr = Idle
    /\ cfg = Configuration

StatusPass ==
    /\ last.op \in {"init", "pass"}
    /\ pre' = workspace
    /\ workspace' = updateWorkspaceStatus(workspace, pods, now)
    /\ now' = now + 1
    /\ last' = Step(IF last.op = "init" THEN "pass" ELSE "second pass", "")
    /\ UNCHANGED <<pods, sr, tr, cfg>>

NextStatus == StatusPass

SpecStatus == InitStatus /\ [][NextStatus]_vars

(***************************************************************************)
(* Spec: the two reconcilers on one workspace object.  The API server      *)
(* holds the object; a pass reads it (and the pods), computes, and writes  *)
(* the status back on condition that the object still has the              *)
(* resourceVersion the pass read.  The clock and the pods change in        *)
(* between.  The workspace starts Pending, without a pod.                  *)
(***************************************************************************)
PodStatus(phase) == [phase |-> phase, reason |-> "", message |-> ""]

\* the pods the cluster may show for the workspace at clock value t
ClusterPods(t) ==
    { Pod(NoTime, {}, PodStatus("Pending"),
          <<ContainerStatus("workspace", FALSE,
                            Waiting("ImagePullBackOff", <<Raw("back-off pulling image")>>),
                            NoState)>>),
      Pod(NoTime, {gitpodPodFinalizerName}, PodStatus("Running"),
          <<ContainerStatus("workspace", TRUE, RunningState, NoState)>>),
      Pod(t, {gitpodPodFinalizerName}, PodStatus("Running"),
          <<ContainerStatus("workspace", TRUE, RunningState, NoState)>>) }

\* a pod list that breaks the one-pod-per-workspace rule: n pods
RECURSIVE SeveralPods(_)
SeveralPods(n) ==
    IF n = 0 THEN <<>>
    ELSE Append(SeveralPods(n - 1),
                Pod(NoTime, {}, PodStatus(IF n = 1 THEN "Running" ELSE "Pending"), <<>>))

ClusterPodLists(t) ==
    {<<>>} \cup {<<p>> : p \in ClusterPods(t)} \cup {SeveralPods(n) : n \in 2..MaxPods}

\* the pod the timeout policy is given: the workspace's pod, and a pod
\* object with nothing set when the workspace has none
ZeroPod == Pod(NoTime, {}, PodStatus(""), <<>>)

podOf(podList) == IF Len(podList) = 0 THEN ZeroPod ELSE podList[1]

Init ==
    /\ workspace = Workspace(WorkspacePhasePending, FALSE, <<>>)
    /\ pods = <<>>
    /\ now = 0
    /\ pre = workspace
    /\ last = Step("init", "")
    /\ sr = Idle
    /\ tr = Idle
    /\ cfg = Configuration

\* time passes
Tick ==
    /\ now < MaxTime
    /\ now' = now + 1
    /\ UNCHANGED <<workspace, pods, pre, last, sr, tr, cfg>>

\* the cluster creates, changes, deletes or removes the workspace's pods
PodsChange ==
    /\ \E l \in ClusterPodLists(now) : l # pods /\ pods' = l
    /\ UNCHANGED <<workspace, now, pre, last, sr, tr, cfg>>

\* the Status Reconciler reads the workspace
StatusGet ==
    /\ sr.pc = "idle"
    /\ sr' = Got(workspace)
    /\ UNCHANGED <<workspace, pods, now, pre, last, tr, cfg>>

\* StatusUpdate writing whatever version the stored object has
StatusUpdate_Unconditional ==
    /\ sr.pc = "got"
    /\ LET new == updateWorkspaceStatus(sr.ws, pods, now)
       IN  IF new = sr.ws
           THEN UNCHANGED workspace
           ELSE /\ workspace.resourceVersion < MaxVersion
                /\ workspace' =
                      [new EXCEPT !.resourceVersion = workspace.resourceVersion + 1]
    /\ sr' = Idle
    /\ UNCHANGED <<pods, now, pre, last, tr, cfg>>

\* the Status Reconciler lists the pods, computes the status and writes it
\* back when it differs from what it read
StatusUpdate ==
    /\ sr.pc = "got"
    /\ LET new == updateWorkspaceStatus(sr.ws, pods, now)
       IN  IF new = sr.ws
           THEN UNCHANGED workspace
           ELSE IF sr.ws.resourceVersion # workspace.resourceVersion
           THEN UNCHANGED workspace
           ELSE /\ workspace.resourceVersion < MaxVersion
                /\ workspace' = [new EXCEPT !.resourceVersion = @ + 1]
    /\ sr' = Idle
    /\ UNCHANGED <<pods, now, pre, last, tr, cfg>>

\* lines 54-63: the Timeout Reconciler fetches the workspace
TimeoutGet ==
    /\ tr.pc = "idle"
    /\ tr' = Got(workspace)
    /\ UNCHANGED <<workspace, pods, now, pre, last, sr, cfg>>

\* alreadyTimedOut finding the condition on every workspace
alreadyTimedOut_Always(ws) == TRUE

\* alreadyTimedOut never finding the condition
alreadyTimedOut_Never(ws) == FALSE

\* line 83: the workspace carries the Timeout condition
alreadyTimedOut(ws) == conditionPresentAndTrue(ws.conditions, "Timeout")

\* withTimeoutCondition putting the condition in the place of the others
withTimeoutCondition_Replacing(ws, timedout, t) ==
    [ws EXCEPT !.conditions = <<Condition("Timeout", "True", t, timedout, "")>>]

\* lines 89-94: the workspace with the Timeout condition added
withTimeoutCondition(ws, timedout, t) ==
    [ws EXCEPT !.conditions =
        AddUniqueCondition(ws.conditions, Condition("Timeout", "True", t, timedout, ""))]

\* TimeoutUpdate writing whatever version the stored object has
TimeoutUpdate_Unconditional ==
    /\ tr.pc = "got"
    /\ LET timedout == isWorkspaceTimedOut(tr.ws, podOf(pods), cfg, now)
       IN  IF timedout = ""
           THEN /\ last' = Step("timeout", "not timed out")
                /\ UNCHANGED workspace
           ELSE IF alreadyTimedOut(tr.ws)
           THEN /\ last' = Step("timeout", "already timed out")
                /\ UNCHANGED workspace
           ELSE /\ workspace.resourceVersion < MaxVersion
                /\ workspace' =
                      [withTimeoutCondition(tr.ws, timedout, now)
                          EXCEPT !.resourceVersion = workspace.resourceVersion + 1]
                /\ last' = Step("timeout", "written")
    /\ tr' = Idle
    /\ UNCHANGED <<pods, now, pre, sr, cfg>>

\* lines 71-97: the Timeout Reconciler evaluates the policy and, when the
\* workspace has timed out and carries no Timeout condition, updates the
\* status
TimeoutUpdate ==
    /\ tr.pc = "got"
    /\ LET timedout == isWorkspaceTimedOut(tr.ws, podOf(pods), cfg, now)
       IN  IF timedout = ""
           THEN /\ last' = Step("timeout", "not timed out")
                /\ UNCHANGED workspace
           ELSE IF alreadyTimedOut(tr.ws)
           THEN /\ last' = Step("timeout", "already timed out")
                /\ UNCHANGED workspace
           ELSE IF tr.ws.resourceVersion # workspace.resourceVersion
           THEN /\ last' = Step("timeout", "conflict")
                /\ UNCHANGED workspace
           ELSE /\ workspace.resourceVersion < MaxVersion
                /\ workspace' =
                      [withTimeoutCondition(tr.ws, timedout, now)
                          EXCEPT !.resourceVersion = @ + 1]
                /\ last' = Step("timeout", "written")
    /\ tr' = Idle
    /\ UNCHANGED <<pods, now, pre, sr, cfg>>

Next ==
    \/ Tick
    \/ PodsChange
    \/ StatusGet
    \/ StatusUpdate
    \/ TimeoutGet
    \/ TimeoutUpdate

Spec == Init /\ [][Next]_vars

(***************************************************************************)
(* Properties of the reconcilers, checked under Spec.                      *)
(***************************************************************************)
HasCondition(conds, tpe, status) ==
    \E i \in 1..Len(conds) : conds[i].type = tpe /\ conds[i].status = status

\* the condition of the type is the same, field by field, in both lists
SameCondition(conds, conds2, tpe) ==
    /\ IndexOfType(conds2, tpe) # 0
    /\ GetCondition(conds2, tpe) = GetCondition(conds, tpe)

\* C1: once the workspace carries Failed=True, no step removes the
\* condition or changes its status, message or lastTransitionTime,
\* whatever pod list the status pass is given.
C1_FailedLatch ==
    [][HasCondition(workspace.conditions, "Failed", "True")
          => SameCondition(workspace.conditions, workspace'.conditions, "Failed")]_vars

\* C2: once the workspace carries Timeout=True, no step of either
\* reconciler removes the condition or changes its status, message or
\* lastTransitionTime.
C2_TimeoutLatch ==
    [][HasCondition(workspace.conditions, "Timeout", "True")
          => SameCondition(workspace.conditions, workspace'.conditions, "Timeout")]_vars

\* the workspace timed out while Pending; the Status Reconciler has since
\* moved it to Creating, and a later pass of the Timeout Reconciler, for
\* which the policy gave another reason, left the condition as it was
C2_Witness ==
    /\ HasCondition(workspace.conditions, "Timeout", "True")
    /\ GetCondition(workspace.conditions, "Timeout").message =
          "workspace timed out after initialization (00h01m) took longer than 00h01m"
    /\ GetCondition(workspace.conditions, "Timeout").lastTransitionTime = 1
    /\ workspace.phase = "Creating"
    /\ now = 2
    /\ last = Step("timeout", "already timed out")
    /\ isWorkspaceTimedOut(workspace, podOf(pods), cfg, now) =
          "workspace timed out after creating containers (00h01m) took longer than 00h01m"

(***************************************************************************)
(* Properties of the status pass, checked under SpecStatus.                *)
(***************************************************************************)
\* a pass has run: pre is what it started from, workspace what it left
Passed == last.op \in {"pass", "second pass"}

OnePod == Len(pods) = 1

\* C3: a second status pass on the result of the first, with the same pod
\* list, leaves phase, conditions (types, statuses, messages and
\* lastTransitionTimes) and runtime as the first pass left them.
C3_Idempotent ==
    last.op = "second pass" =>
        /\ workspace.phase = pre.phase
        /\ workspace.conditions = pre.conditions
        /\ workspace.runtime = pre.runtime

\* the second pass ran, at a later clock value, on a workspace to which the
\* first pass had added Deployed and Failed
C3_Witness ==
    /\ last.op = "second pass"
    /\ OnePod
    /\ HasCondition(workspace.conditions, "Failed", "True")
    /\ GetCondition(workspace.conditions, "Failed").lastTransitionTime = 1
    /\ GetCondition(workspace.conditions, "Deployed").lastTransitionTime = 1
    /\ now = 3

\* C4: with an empty pod list a pass turns the empty phase into Pending,
\* leaves Pending, turns every other phase into Stopped, and changes
\* neither the conditions nor the runtime.
C4_ZeroPods ==
    (Passed /\ Len(pods) = 0) =>
        /\ pre.phase = "" => workspace.phase = "Pending"
        /\ pre.phase = "Pending" => workspace.phase = "Pending"
        /\ pre.phase \in {"Creating", "Initializing", "Running", "Stopping",
                          "Stopped", "Unknown"} => workspace.phase = "Stopped"
        /\ workspace.conditions = pre.conditions
        /\ workspace.runtime = pre.runtime

C4_Witness ==
    /\ last.op = "pass"
    /\ Len(pods) = 0
    /\ pre.phase = "Running"
    /\ workspace.phase = "Stopped"
    /\ pre.conditions # <<>>

\* C5: with two or more pods a pass leaves the phase as it was, ends with
\* Failed=True present, adds no Deployed condition and leaves the runtime.
C5_MultiplePods ==
    (Passed /\ Len(pods) >= 2) =>
        /\ workspace.phase = pre.phase
        /\ HasCondition(workspace.conditions, "Failed", "True")
        /\ IndexOfType(workspace.conditions, "Deployed") # 0
              <=> IndexOfType(pre.conditions, "Deployed") # 0
        /\ workspace.runtime = pre.runtime

C5_Witness ==
    /\ last.op = "pass"
    /\ Len(pods) >= 2
    /\ pre.phase = "Running"
    /\ pre.conditions = <<>>
    /\ HasCondition(workspace.conditions, "Failed", "True")

\* C6: one pod with deletionTimestamp set and without the disposal
\* finalizer ends the pass in Stopped, whatever else the pod and the
\* workspace's conditions say.
C6_DeletedNoFinalizer ==
    (Passed /\ OnePod /\ pods[1].deletionTimestamp # NoTime
            /\ gitpodPodFinalizerName \notin pods[1].finalizers)
        => workspace.phase = "Stopped"

C6_Witness ==
    /\ last.op = "pass"
    /\ OnePod
    /\ pods[1].deletionTimestamp # NoTime
    /\ pods[1].finalizers = {}
    /\ pods[1].phase = "Running"
    /\ pre.phase = "Running"
    /\ ~HasCondition(workspace.conditions, "BackupComplete", "True")
    /\ workspace.phase = "Stopped"

\* the terminal backup/content outcome that lets a pod with finalizer stop
TerminalOutcome(conds) ==
    \/ HasCondition(conds, "BackupComplete", "True")
    \/ HasCondition(conds, "BackupFailure", "True")
    \/ \E i \in 1..Len(conds) :
          /\ conds[i].type = "ContentReady"
          /\ conds[i].status = "False"
          /\ conds[i].reason = "InitializationFailure"

\* C7: one pod with deletionTimestamp set and the disposal finalizer ends
\* the pass in Stopped exactly when the workspace has BackupComplete=True,
\* BackupFailure=True or ContentReady=False with reason
\* InitializationFailure, and in Stopping otherwise.
C7_DeletedWithFinalizer ==
    (Passed /\ OnePod /\ pods[1].deletionTimestamp # NoTime
            /\ gitpodPodFinalizerName \in pods[1].finalizers)
        => /\ workspace.phase \in {"Stopped", "Stopping"}
           /\ workspace.phase = "Stopped" <=> TerminalOutcome(pre.conditions)

C7_Witness ==
    /\ last.op = "pass"
    /\ OnePod
    /\ pods[1].deletionTimestamp # NoTime
    /\ gitpodPodFinalizerName \in pods[1].finalizers
    /\ HasCondition(pre.conditions, "BackupFailure", "True")
    /\ pre.phase = "Stopping"
    /\ workspace.phase = "Stopped"

\* C8: one pod with deletionTimestamp set ends the pass in Stopping or
\* Stopped, whatever its pod phase, also when a failure is extracted from
\* a container in the same pass.
C8_DeletionFirst ==
    (Passed /\ OnePod /\ pods[1].deletionTimestamp # NoTime)
        => workspace.phase \in {"Stopping", "Stopped"}

\* a pod being deleted whose container left a termination message: the
\* pass records the failure and still decides the phase by the deletion
C8_Witness ==
    /\ last.op = "pass"
    /\ OnePod
    /\ pods[1].deletionTimestamp # NoTime
    /\ pods[1].phase = "Pending"
    /\ ~HasCondition(pre.conditions, "Failed", "True")
    /\ HasCondition(workspace.conditions, "Failed", "True")
    /\ GetCondition(workspace.conditions, "Failed").message = "out of disk"
    /\ workspace.phase = "Stopping"

WaitingToBeCreated(cs) ==
    /\ cs.state.kind = "waiting"
    /\ \/ cs.state.reason = "ContainerCreating"
       \/ cs.state.reason = "ImagePullBackOff"
       \/ cs.state.reason = "ErrImagePull"

TerminationState(cs) ==
    IF cs.state.kind = "terminated" THEN cs.state ELSE cs.lastTerminationState

TerminatedWithMessage(cs) ==
    /\ TerminationState(cs).kind = "terminated"
    /\ TerminationState(cs).exitCode # 0
    /\ TerminationState(cs).message # <<>>

\* C12: one pod, not being deleted, one of whose containers has a
\* terminated (or last terminated) state with a non-zero exit code and a
\* non-empty message, ends the pass in Running, whatever its pod phase.
C12_TerminatedForcesRunning ==
    (Passed /\ OnePod /\ pods[1].deletionTimestamp = NoTime
            /\ \E i \in 1..Len(pods[1].containerStatuses) :
                  TerminatedWithMessage(pods[1].containerStatuses[i]))
        => workspace.phase = "Running"

PullFailed(cs) ==
    /\ cs.state.kind = "waiting"
    /\ cs.state.reason \in {"ImagePullBackOff", "ErrImagePull"}

\* C13: one pod one of whose containers is waiting with reason
\* ImagePullBackOff or ErrImagePull, the pod not being in phase Failed
\* with a reason or message: when the pod is not being deleted the pass
\* ends in Creating, whatever the pod phase; when it is being deleted the
\* pass ends in the phase of the deletion rule.
C13_PullFailureForcesCreating ==
    (Passed /\ OnePod
            /\ \E i \in 1..Len(pods[1].containerStatuses) :
                  PullFailed(pods[1].containerStatuses[i])
            /\ ~(pods[1].phase = "Failed"
                    /\ (pods[1].reason # "" \/ pods[1].message # "")))
        => IF pods[1].deletionTimestamp = NoTime
           THEN workspace.phase = "Creating"
           ELSE workspace.phase =
                   IF gitpodPodFinalizerName \notin pods[1].finalizers
                      \/ TerminalOutcome(pre.conditions)
                   THEN "Stopped" ELSE "Stopping"

(***************************************************************************)
(* SpecPolicy: isWorkspaceTimedOut as a function.  It is asked once, about *)
(* any workspace, pod, configuration and clock value of the sets below.    *)
(***************************************************************************)
\* the conditions the policy reads: UserActivity (set at a), Closed and
\* BackupComplete
PolicyConditions(a, closed, backup) ==
    (IF a # NoTime THEN <<Condition("UserActivity", "True", a, "", "")>> ELSE <<>>)
    \o (IF closed # "" THEN <<Condition("Closed", closed, 0, "", "")>> ELSE <<>>)
    \o (IF backup # "" THEN <<Condition("BackupComplete", backup, 0, "", "")>> ELSE <<>>)

PolicyWorkspaces ==
    { [Workspace(p, h, PolicyConditions(a, closed, backup))
          EXCEPT !.creationTimestamp = c, !.timeout = custom] :
        p \in WorkspacePhases, h \in BOOLEAN, a \in {NoTime, 1, 2},
        closed \in {"", "True", "False"}, backup \in {"", "True"},
        c \in {0, 1}, custom \in {NoTime, 1, 3} }

\* the workspace's pod: not being deleted, or deleted at 1 or 2
PolicyPods ==
    { Pod(d, {gitpodPodFinalizerName}, PodStatus("Running"),
          <<ContainerStatus("workspace", TRUE, RunningState, NoState)>>) :
        d \in {NoTime, 1, 2} }

\* timeouts of a few units, and timeouts of half an hour and more
PolicyConfigurations ==
    { Configuration,
      [Initialization |-> 2, TotalStartup |-> 1, RegularWorkspace |-> 3,
       HeadlessWorkspace |-> 1, MaxLifetime |-> 4, AfterClose |-> 2,
       Stopping |-> 2, ContentFinalization |-> 1, HeartbeatInterval |-> 2],
      [Initialization |-> 60, TotalStartup |-> 120, RegularWorkspace |-> 60,
       HeadlessWorkspace |-> 120, MaxLifetime |-> 4320, AfterClose |-> 4,
       Stopping |-> 2, ContentFinalization |-> 3, HeartbeatInterval |-> 2],
      [Initialization |-> 90, TotalStartup |-> 120, RegularWorkspace |-> 60,
       HeadlessWorkspace |-> 120, MaxLifetime |-> 4320, AfterClose |-> 4,
       Stopping |-> 2, ContentFinalization |-> 3, HeartbeatInterval |-> 2] }

\* the clock values: the first few, and 31 minutes
PolicyClocks == (0..MaxElapsed) \cup {62}

InitPolicy ==
    /\ workspace \in PolicyWorkspaces
    /\ pods \in {<<p>> : p \in PolicyPods}
    /\ now \in PolicyClocks
    /\ workspace.creationTimestamp <= now
    /\ getWorkspaceActivity(workspace) <= now
    /\ pods[1].deletionTimestamp <= now
    /\ pre = workspace
    /\ last = Step("init", "")
    /\ sr = Idle
    /\ tr = Idle
    /\ cfg \in PolicyConfigurations

PolicyDecide ==
    /\ last.op = "init"
    /\ last' = Step("policy", isWorkspaceTimedOut(workspace, podOf(pods), cfg, now))
    /\ UNCHANGED <<workspace, pods, now, pre, sr, tr, cfg>>

NextPolicy == PolicyDecide

SpecPolicy == InitPolicy /\ [][NextPolicy]_vars

(***************************************************************************)
(* Properties of the timeout policy, checked under SpecPolicy.             *)
(***************************************************************************)
\* the policy has been asked; last.outcome is the reason it returned
Decided == last.op = "policy"

TimedOut == last.outcome # ""

\* time since the workspace was created
Elapsed == now - workspace.creationTimestamp

HasActivity == \E i \in 1..Len(workspace.conditions) :
                  workspace.conditions[i].type = "UserActivity"

\* time since the last activity
SinceActivity == now - GetCondition(workspace.conditions, "UserActivity").lastTransitionTime

\* time since the pod was deleted
SinceDeletion == now - pods[1].deletionTimestamp

\* a Running workspace that has not exceeded its maximum lifetime
RunningInLifetime ==
    /\ Decided
    /\ workspace.phase = "Running"
    /\ Elapsed < cfg.MaxLifetime

\* C14: a Pending workspace times out exactly when the time since its
\* creation is at least Initialization; an Initializing or Creating
\* workspace exactly when it is at least TotalStartup.  Equal to the
\* duration times out, one unit less does not.
C14_StartupTimeouts ==
    Decided =>
        /\ workspace.phase = "Pending"
              => (TimedOut <=> Elapsed >= cfg.Initialization)
        /\ workspace.phase \in {"Initializing", "Creating"}
              => (TimedOut <=> Elapsed >= cfg.TotalStartup)

\* Pending, created 31 minutes ago, Initialization of 30 minutes
C14_Witness ==
    /\ Decided
    /\ workspace.phase = "Pending"
    /\ Elapsed = 62
    /\ cfg.Initialization = 60
    /\ last.outcome =
          "workspace timed out after initialization (00h31m) took longer than 00h30m"

\* C15: a Running workspace created at least MaxLifetime ago gets the
\* maximum lifetime reason, whatever headless, Closed, the custom timeout
\* and the time of the last activity are.
C15_MaxLifetimeFirst ==
    (Decided /\ workspace.phase = "Running" /\ Elapsed >= cfg.MaxLifetime)
        => last.outcome =
              "workspace timed out after maximum lifetime ("
              \o formatDuration(Elapsed) \o ") took longer than "
              \o formatDuration(cfg.MaxLifetime)

\* the last activity is more recent than any other timeout of the
\* workspace asks for
C15_Witness ==
    /\ Decided
    /\ workspace.phase = "Running"
    /\ ~workspace.headless
    /\ HasActivity
    /\ SinceActivity = 1
    /\ workspace.timeout = 3
    /\ ~HasCondition(workspace.conditions, "Closed", "True")
    /\ Elapsed = 3
    /\ cfg.MaxLifetime = 3
    /\ last.outcome =
          "workspace timed out after maximum lifetime (00h02m) took longer than 00h02m"

\* C16: a Running headless workspace within its maximum lifetime times
\* out exactly when the time since its creation is at least
\* HeadlessWorkspace, whatever its custom timeout, Closed condition and
\* activity are.
C16_HeadlessTimeout ==
    (RunningInLifetime /\ workspace.headless)
        => (TimedOut <=> Elapsed >= cfg.HeadlessWorkspace)

\* C17: a Running workspace, not headless, with activity and Closed=True,
\* within its maximum lifetime, times out exactly when the time since the
\* last activity is at least AfterClose, with or without a custom timeout.
C17_AfterClose ==
    (RunningInLifetime /\ ~workspace.headless /\ HasActivity
            /\ HasCondition(workspace.conditions, "Closed", "True"))
        => (TimedOut <=> SinceActivity >= cfg.AfterClose)

\* closed, and timed out although the custom timeout has not passed
C17_Witness ==
    /\ RunningInLifetime
    /\ ~workspace.headless
    /\ HasCondition(workspace.conditions, "Closed", "True")
    /\ HasActivity
    /\ SinceActivity = 2
    /\ cfg.AfterClose = 2
    /\ workspace.timeout = 3
    /\ last.outcome =
          "workspace timed out after after being closed (00h01m) took longer than 00h01m"

\* C18: a Running workspace, not headless, with activity and without
\* Closed=True, within its maximum lifetime, times out exactly when the
\* time since the last activity is at least its custom timeout, or at
\* least RegularWorkspace when it has none.
C18_Inactivity ==
    (RunningInLifetime /\ ~workspace.headless /\ HasActivity
            /\ ~HasCondition(workspace.conditions, "Closed", "True"))
        => (TimedOut <=> SinceActivity >=
                            IF workspace.timeout # NoTime THEN workspace.timeout
                            ELSE cfg.RegularWorkspace)

\* timed out by its custom timeout, before RegularWorkspace has passed
C18_Witness ==
    /\ RunningInLifetime
    /\ ~workspace.headless
    /\ HasActivity
    /\ HasCondition(workspace.conditions, "Closed", "False")
    /\ workspace.timeout = 1
    /\ cfg.RegularWorkspace = 3
    /\ SinceActivity = 1
    /\ last.outcome =
          "workspace timed out after period of inactivity (00h01m) took longer than 00h01m"

\* C19: a Running workspace, not headless, without activity, within its
\* maximum lifetime, times out exactly when the time since its creation
\* is at least TotalStartup, closed or not, with or without a custom
\* timeout.
C19_NeverActive ==
    (RunningInLifetime /\ ~workspace.headless /\ ~HasActivity)
        => (TimedOut <=> Elapsed >= cfg.TotalStartup)

\* closed and with a custom timeout that has passed, and not timed out
C19_Witness ==
    /\ RunningInLifetime
    /\ ~workspace.headless
    /\ ~HasActivity
    /\ HasCondition(workspace.conditions, "Closed", "True")
    /\ workspace.timeout = 1
    /\ cfg.AfterClose = 1
    /\ cfg.TotalStartup = 2
    /\ Elapsed = 1
    /\ ~TimedOut

\* C20: a Stopping workspace whose pod is not being deleted never times
\* out; with the pod being deleted it times out exactly when the time
\* since the pod's deletion is at least ContentFinalization if
\* BackupComplete=True, and at least Stopping otherwise.
C20_Stopping ==
    (Decided /\ workspace.phase = "Stopping")
        => IF pods[1].deletionTimestamp = NoTime THEN ~TimedOut
           ELSE IF HasCondition(workspace.conditions, "BackupComplete", "True")
           THEN TimedOut <=> SinceDeletion >= cfg.ContentFinalization
           ELSE TimedOut <=> SinceDeletion >= cfg.Stopping

\* the backup is complete and the pod was deleted longer ago than
\* Stopping, not as long ago as ContentFinalization
C20_Witness ==
    /\ Decided
    /\ workspace.phase = "Stopping"
    /\ pods[1].deletionTimestamp # NoTime
    /\ HasCondition(workspace.conditions, "BackupComplete", "True")
    /\ cfg.Stopping = 1
    /\ cfg.ContentFinalization = 2
    /\ SinceDeletion = 1
    /\ ~TimedOut

(***************************************************************************)
(* SpecPass: one pass of TimeoutReconciler.Reconcile as a function of the  *)
(* stored workspace, its pod, the configuration, the clock and the         *)
(* answers of the API server to the Get and to the status Update.          *)
(***************************************************************************)
\* the errors of the client: none is ""
NoError == ""
ErrNotFound == "not found"
ErrConflict == "the object has been modified"
ErrUnavailable == "connection refused"

\* ctrl.Result; Result(FALSE, 0) is ctrl.Result{}
Result(requeue, requeueAfter) == [Requeue |-> requeue, RequeueAfter |-> requeueAfter]

\* reconcileInterval keeping the whole heartbeat interval
reconcileInterval_Whole(config) == config.HeartbeatInterval

\* lines 22-25: half the heartbeat interval
reconcileInterval(config) == config.HeartbeatInterval \div 2

\* IgnoreNotFound ignoring every error
IgnoreNotFound_All(err) == NoError

\* client.IgnoreNotFound
IgnoreNotFound(err) == IF err = ErrNotFound THEN NoError ELSE err

\* line 65: a Get that failed ends the pass with the requeue of a pass
\* that fetched
failedGetResult_Requeue(config) == Result(FALSE, reconcileInterval(config))

\* line 62: the result of a pass whose Get failed, returned before the
\* deferred function of line 67 exists
failedGetResult(config) == Result(FALSE, 0)

\* lines 49-98.  getErr and updateErr are the API server's answers; the
\* outcome holds the result and error returned, the workspace as stored
\* after the pass, the reason the policy gave ("-" when it was not asked)
\* and the number of Update calls.
Reconcile(ws, pod, config, t, getErr, updateErr) ==
    IF getErr # NoError
    THEN [result |-> failedGetResult(config), err |-> IgnoreNotFound(getErr),
          stored |-> ws, timedout |-> "-", updates |-> 0]
    ELSE LET timedout == isWorkspaceTimedOut(ws, pod, config, t)
             deferred == Result(FALSE, reconcileInterval(config))
         IN  IF timedout = ""
             THEN [result |-> deferred, err |-> NoError, stored |-> ws,
                   timedout |-> timedout, updates |-> 0]
             ELSE IF alreadyTimedOut(ws)
             THEN [result |-> deferred, err |-> NoError, stored |-> ws,
                   timedout |-> timedout, updates |-> 0]
             ELSE [result |-> deferred, err |-> updateErr,
                   stored |-> IF updateErr = NoError
                              THEN [withTimeoutCondition(ws, timedout, t)
                                       EXCEPT !.resourceVersion = @ + 1]
                              ELSE ws,
                   timedout |-> timedout, updates |-> 1]

\* the workspaces a pass may fetch: with or without activity, Closed and
\* an earlier Timeout condition
PassWorkspaces ==
    { [Workspace(p, h, PolicyConditions(a, closed, "")
                       \o (IF timeout THEN <<Condition("Timeout", "True", 0,
                                                       "timed out earlier", "")>>
                           ELSE <<>>))
          EXCEPT !.timeout = custom] :
        p \in WorkspacePhases, h \in BOOLEAN, a \in {NoTime, 1},
        closed \in {"", "True"}, timeout \in BOOLEAN, custom \in {NoTime, 1} }

\* heartbeat intervals of one minute and of four minutes
PassConfigurations ==
    { Configuration, [Configuration EXCEPT !.HeartbeatInterval = 8] }

GetErrors == {NoError, ErrNotFound, ErrUnavailable}

UpdateErrors == {NoError, ErrConflict, ErrUnavailable}

InitPass ==
    /\ workspace \in PassWorkspaces
    /\ pods \in {<<p>> : p \in PolicyPods}
    /\ now \in 0..MaxElapsed
    /\ getWorkspaceActivity(workspace) <= now
    /\ pods[1].deletionTimestamp <= now
    /\ pre = workspace
    /\ last = Step("init", "")
    /\ sr = Idle
    /\ tr = Idle
    /\ cfg \in PassConfigurations

\* one pass; tr keeps the answers of the API server and the outcome
ReconcilePass ==
    /\ tr.pc = "idle"
    /\ \E getErr \in GetErrors, updateErr \in UpdateErrors :
          LET o == Reconcile(workspace, podOf(pods), cfg, now, getErr, updateErr)
          IN  /\ tr' = [pc |-> "done", ws |-> workspace, getErr |-> getErr,
                        updateErr |-> updateErr, outcome |-> o]
              /\ workspace' = o.stored
              /\ last' = Step("reconcile", o.err)
    /\ UNCHANGED <<pods, now, pre, sr, cfg>>

NextPass == ReconcilePass

SpecPass == InitPass /\ [][NextPass]_vars

(***************************************************************************)
(* Properties of one pass of the Timeout Reconciler, checked under         *)
(* SpecPass.                                                               *)
(***************************************************************************)
\* the pass has run: pre is the workspace as it was stored before
PassDone == tr.pc = "done"

\* the pass has run and its Get succeeded
Fetched == PassDone /\ tr.getErr = NoError

\* the pass called Update and the API server answered with the error e
UpdateAnswered(e) == Fetched /\ tr.outcome.updates = 1 /\ tr.updateErr = e

\* C21: a pass that fetches a workspace in phase Stopped, Unknown or ""
\* gets no reason from the policy, calls no Update and leaves the stored
\* workspace, its conditions included, as it was, whatever the clock, the
\* activity and the configuration are.
C21_StoppedNeverTimesOut ==
    (Fetched /\ pre.phase \in {"Stopped", "Unknown", ""})
        => /\ tr.outcome.timedout = ""
           /\ tr.outcome.updates = 0
           /\ workspace = pre

\* a Stopped workspace, older than every timeout, whose pod was deleted
\* longer ago than the Stopping timeout
C21_Witness ==
    /\ Fetched
    /\ pre.phase = "Stopped"
    /\ now = MaxElapsed
    /\ pods[1].deletionTimestamp = 1
    /\ IndexOfType(workspace.conditions, "Timeout") = 0
    /\ tr.outcome.updates = 0

\* C22: every pass whose Get succeeded returns a RequeueAfter of exactly
\* half the HeartbeatInterval, whether the workspace had not timed out,
\* was given the Timeout condition or already carried it.
C22_RequeueAfterHalfHeartbeat ==
    Fetched => /\ 2 * tr.outcome.result.RequeueAfter = cfg.HeartbeatInterval
               /\ tr.outcome.result.RequeueAfter > 0

\* HeartbeatInterval of 4 minutes, requeue after 2 minutes, in the pass
\* that adds the Timeout condition
C22_Witness ==
    /\ Fetched
    /\ cfg.HeartbeatInterval = 8
    /\ tr.outcome.result.RequeueAfter = 4
    /\ tr.outcome.updates = 1
    /\ ~HasCondition(pre.conditions, "Timeout", "True")
    /\ HasCondition(workspace.conditions, "Timeout", "True")

\* C25: a pass whose Get fails with not-found returns no error and the
\* empty result, without a requeue delay, does not ask the policy and
\* calls no Update.
C25_NotFoundIgnored ==
    (PassDone /\ tr.getErr = ErrNotFound)
        => /\ tr.outcome.err = NoError
           /\ tr.outcome.result = Result(FALSE, 0)
           /\ tr.outcome.timedout = "-"
           /\ tr.outcome.updates = 0
           /\ workspace = pre

\* the workspace would have timed out had it been fetched
C25_Witness ==
    /\ PassDone
    /\ tr.getErr = ErrNotFound
    /\ pre.phase = "Pending"
    /\ ~HasCondition(pre.conditions, "Timeout", "True")
    /\ isWorkspaceTimedOut(pre, podOf(pods), cfg, now) # ""
    /\ last = Step("reconcile", NoError)

\* C26: a pass whose Update fails with a version conflict asks for an
\* immediate requeue and returns no error.
C26_ConflictRequeued ==
    UpdateAnswered(ErrConflict)
        => /\ tr.outcome.err = NoError
           /\ tr.outcome.result.Requeue

\* C27: a Get that fails with anything but not-found, and an Update that
\* fails, make the pass return that error; no such pass returns nil.
C27_FailuresReturned ==
    /\ (PassDone /\ tr.getErr \notin {NoError, ErrNotFound})
          => tr.outcome.err = tr.getErr
    /\ \A e \in UpdateErrors \ {NoError} :
          UpdateAnswered(e) => tr.outcome.err = e

\* the Get failed because the API server could not be reached
C27_Witness ==
    /\ PassDone
    /\ tr.getErr = ErrUnavailable
    /\ tr.outcome.err = ErrUnavailable
    /\ tr.outcome.updates = 0
    /\ workspace = pre

(***************************************************************************)
(* SpecLogs: extractFailureFromLogs as a function of the termination       *)
(* message of the workspace container.                                     *)
(***************************************************************************)
\* what a log tail is made of: newlines, text that is no JSON, and records
\* with and without the members message and error
LogChunks ==
    { NL,
      Raw("panic: out of disk"),
      Json("{\"message\":\"boom\",\"error\":\"x\"}", TRUE, "boom", TRUE, "x"),
      Json("{\"message\":\"stopped\"}", TRUE, "stopped", FALSE, ""),
      Json("{\"error\":\"y\"}", FALSE, "", TRUE, "y"),
      Json("{\"level\":\"info\"}", FALSE, "", FALSE, ""),
      Json("{\"message\":\"\",\"error\":\"z\"}", TRUE, "", TRUE, "z") }

LogTailsUpTo(n) == SeqsUpTo(LogChunks, n)

\* the pod whose workspace container terminated with the message logs
PodWithLogs(logs) ==
    Pod(NoTime, {gitpodPodFinalizerName}, PodStatus("Running"),
        <<ContainerStatus("workspace", FALSE, Terminated(1, "Error", logs), NoState)>>)

InitLogs ==
    /\ workspace = Workspace(WorkspacePhaseRunning, FALSE, <<>>)
    /\ pods \in {<<PodWithLogs(logs)>> : logs \in LogTailsUpTo(MaxLogChunks)}
    /\ now = 1
    /\ pre = workspace
    /\ last = Step("init", "")
    /\ sr = Idle
    /\ tr = Idle
    /\ cfg = Configuration

\* line 332
ExtractFromLogs ==
    /\ last.op = "init"
    /\ last' = Step("extract",
                    extractFailureFromLogs(pods[1].containerStatuses[1].state.message))
    /\ UNCHANGED <<workspace, pods, now, pre, sr, tr, cfg>>

NextLogs == ExtractFromLogs

SpecLogs == InitLogs /\ [][NextLogs]_vars

(***************************************************************************)
(* Properties of extractFailureFromLogs, checked under SpecLogs.           *)
(***************************************************************************)
\* the log tail of the state
Logs == pods[1].containerStatuses[1].state.message

\* the lines of a log tail: what the newlines separate, the text after the
\* last newline being the last line when there is any
RECURSIVE LinesOf(_, _, _)
LinesOf(logs, i, line) ==
    IF i > Len(logs) THEN (IF line = <<>> THEN <<>> ELSE <<line>>)
    ELSE IF logs[i].kind = "nl" THEN <<line>> \o LinesOf(logs, i + 1, <<>>)
    ELSE LinesOf(logs, i + 1, Append(line, logs[i]))

\* the line is one record with a non-empty message
IsRecordWithMessage(line) ==
    /\ Len(line) = 1
    /\ line[1].kind = "json"
    /\ line[1].hasMessage
    /\ line[1].message # ""

RecordText(record) ==
    IF record.hasError /\ record.error # ""
    THEN record.message \o ": " \o record.error
    ELSE record.message

\* the text of the last line that is a record with a non-empty message,
\* and the raw bytes when no line is one
LastRecordText(logs) ==
    LET lines == LinesOf(logs, 1, <<>>)
        found == {i \in 1..Len(lines) : IsRecordWithMessage(lines[i])}
    IN  IF found = {} THEN BytesToString(logs)
        ELSE LET l == CHOOSE i \in found : \A j \in found : j <= i
             IN  RecordText(lines[l][1])

\* C24: extractFailureFromLogs returns the text of the last line that is
\* a record with a non-empty message ("message: error" when that line's
\* error is not empty, the message otherwise) and the raw bytes when no
\* line is one, for every layout of lines, a last line without a newline
\* after it included.
C24_LastRecordOfLogs ==
    last.op = "extract" => last.outcome = LastRecordText(Logs)

(***************************************************************************)
(* SpecRuntime: status passes on one workspace whose pod is rescheduled,   *)
(* loses or gains its addresses, or is replaced, between the passes.       *)
(***************************************************************************)
\* a running pod that reports the given names and addresses
PodAt(name, nodeName, hostIP, podIP) ==
    [Pod(NoTime, {gitpodPodFinalizerName}, PodStatus("Running"),
         <<ContainerStatus("workspace", TRUE, RunningState, NoState)>>)
        EXCEPT !.name = name, !.nodeName = nodeName, !.hostIP = hostIP,
               !.podIP = podIP]

RuntimePodLists ==
    {<<>>}
    \cup { <<PodAt(n, node, host, ip)>> :
              n \in {"", "ws-a", "ws-b"}, node \in {"", "node-1", "node-2"},
              host \in {"", "10.0.0.1"}, ip \in {"", "10.1.0.1"} }

InitRuntime ==
    /\ workspace = Workspace(WorkspacePhasePending, FALSE, <<>>)
    /\ pods \in RuntimePodLists
    /\ now = 0
    /\ pre = workspace
    /\ last = Step("init", "")
    /\ sr = Idle
    /\ tr = Idle
    /\ cfg = Configuration

RuntimePass ==
    /\ now < MaxPasses
    /\ pre' = workspace
    /\ workspace' = updateWorkspaceStatus(workspace, pods, now)
    /\ now' = now + 1
    /\ last' = Step("pass", "")
    /\ UNCHANGED <<pods, sr, tr, cfg>>

\* the pod changes between two passes
PodMoves ==
    /\ last.op = "pass"
    /\ now < MaxPasses
    /\ \E l \in RuntimePodLists : l # pods /\ pods' = l
    /\ last' = Step("pod moves", "")
    /\ UNCHANGED <<workspace, now, pre, sr, tr, cfg>>

NextRuntime == RuntimePass \/ PodMoves

SpecRuntime == InitRuntime /\ [][NextRuntime]_vars

(***************************************************************************)
(* Properties of the runtime snapshot, checked under SpecRuntime.          *)
(***************************************************************************)
\* the fields of the runtime snapshot and the pod field each is taken from
RuntimeFields == {"nodeName", "hostIP", "podIP", "podName"}

PodField(pod, f) == IF f = "podName" THEN pod.name ELSE pod[f]

\* C30: a pass leaves every runtime field that was not empty as it was,
\* whatever the pod reports, and gives a field that was empty the value
\* the pod reports; with no pod, or several, it leaves the runtime alone.
C30_RuntimeFirstWriteWins ==
    last.op = "pass" =>
        IF Len(pods) = 1
        THEN \A f \in RuntimeFields :
                workspace.runtime[f] =
                    IF pre.runtime[f] # "" THEN pre.runtime[f]
                    ELSE PodField(pods[1], f)
        ELSE workspace.runtime = pre.runtime

\* the second pass sees another pod on another node: the names stay, and
\* the pod IP, which the first pod did not have, is filled in
C30_Witness ==
    /\ last.op = "pass"
    /\ now = 2
    /\ Len(pods) = 1
    /\ pods[1].name = "ws-b"
    /\ pods[1].nodeName = "node-2"
    /\ pods[1].hostIP = ""
    /\ pods[1].podIP = "10.1.0.1"
    /\ pre.runtime = [nil |-> FALSE, nodeName |-> "node-1", hostIP |-> "10.0.0.1",
                      podIP |-> "", podName |-> "ws-a"]
    /\ workspace.runtime = [nil |-> FALSE, nodeName |-> "node-1",
                            hostIP |-> "10.0.0.1", podIP |-> "10.1.0.1",
                            podName |-> "ws-a"]

(***************************************************************************)
(* More properties of the reconcilers, checked under Spec.                 *)
(***************************************************************************)
\* the step is the second half of a pass of the Timeout Reconciler
TimeoutStep == tr.pc = "got" /\ tr'.pc = "idle"

\* the step is the second half of a pass of the Status Reconciler
StatusStep == sr.pc = "got" /\ sr'.pc = "idle"

\* the step leaves a condition of the type, if there is one, as it is
KeepsCondition(tpe) ==
    IndexOfType(workspace.conditions, tpe) # 0
        => SameCondition(workspace.conditions, workspace'.conditions, tpe)

\* C23: a pass of the Timeout Reconciler updates the stored workspace at
\* most once, and only to add Timeout=True to a workspace that has timed
\* out and is without it; once Timeout=True is stored no pass of the
\* Timeout Reconciler writes or tries to.
C23_TimeoutAppendedOnce ==
    [][TimeoutStep =>
          /\ workspace'.resourceVersion <= workspace.resourceVersion + 1
          /\ workspace' # workspace =>
                /\ isWorkspaceTimedOut(tr.ws, podOf(pods), cfg, now) # ""
                /\ ~HasCondition(workspace.conditions, "Timeout", "True")
                /\ HasCondition(workspace'.conditions, "Timeout", "True")
          /\ HasCondition(workspace.conditions, "Timeout", "True") =>
                /\ workspace' = workspace
                /\ last'.outcome \in {"not timed out", "already timed out"}]_vars

\* the Timeout condition was added at 2, as the second write to the
\* stored workspace, and a pass at 3 has left it alone
C23_Witness ==
    /\ last = Step("timeout", "already timed out")
    /\ HasCondition(workspace.conditions, "Timeout", "True")
    /\ GetCondition(workspace.conditions, "Timeout").lastTransitionTime = 2
    /\ workspace.resourceVersion = 2
    /\ now = 3

\* C29: a write of the Timeout Reconciler is accepted only when the
\* stored workspace is the one the pass read and the policy was asked
\* about; when it has changed since, the stored workspace stays as it is,
\* without a Timeout condition of the old phase.
C29_TimeoutOnVersionRead ==
    [][TimeoutStep =>
          /\ workspace' # workspace =>
                /\ workspace.phase = tr.ws.phase
                /\ workspace.conditions = tr.ws.conditions
                /\ workspace'.phase = tr.ws.phase
          /\ (workspace.phase # tr.ws.phase \/ workspace.conditions # tr.ws.conditions)
                => workspace' = workspace]_vars

\* the pass read a workspace that has since lost its pod and is stored as
\* Stopped: its write was refused
C29_Witness ==
    /\ last = Step("timeout", "conflict")
    /\ workspace.phase = "Stopped"
    /\ pods = <<>>
    /\ IndexOfType(workspace.conditions, "Timeout") = 0
    /\ IndexOfType(workspace.conditions, "Deployed") # 0
    /\ tr = Idle

(***************************************************************************)
(* SpecWriters: the two reconcilers and an external writer, the workspace  *)
(* daemon reporting the backup, on one workspace object.                   *)
(***************************************************************************)
\* the backup of the workspace's content is reported as complete, in one
\* read and conditional write
ExternalWrite ==
    /\ workspace.phase \in {WorkspacePhaseRunning, WorkspacePhaseStopping}
    /\ IndexOfType(workspace.conditions, "BackupComplete") = 0
    /\ workspace.resourceVersion < MaxVersion
    /\ workspace' =
          [workspace EXCEPT
              !.conditions = AddUniqueCondition(@,
                                 Condition("BackupComplete", "True", now, "", "")),
              !.resourceVersion = @ + 1]
    /\ UNCHANGED <<pods, now, pre, last, sr, tr, cfg>>

NextWriters ==
    \/ Tick
    \/ PodsChange
    \/ StatusGet
    \/ StatusUpdate
    \/ TimeoutGet
    \/ TimeoutUpdate
    \/ ExternalWrite

SpecWriters == Init /\ [][NextWriters]_vars

\* C28: no write undoes what another writer has stored since the read it
\* was computed from: a write of the Timeout Reconciler leaves the phase,
\* the runtime and the conditions Failed, Deployed and BackupComplete as
\* stored, and a write of the Status Reconciler leaves the conditions
\* Timeout and BackupComplete as stored.
C28_NoLostUpdate ==
    [][/\ TimeoutStep =>
             /\ workspace'.phase = workspace.phase
             /\ workspace'.runtime = workspace.runtime
             /\ KeepsCondition("Failed")
             /\ KeepsCondition("Deployed")
             /\ KeepsCondition("BackupComplete")
       /\ StatusStep =>
             /\ KeepsCondition("Timeout")
             /\ KeepsCondition("BackupComplete")]_vars

\* the workspace daemon wrote between the read and the write of a pass of
\* the Timeout Reconciler: the write was refused and the stored workspace
\* holds what the Status Reconciler and the workspace daemon wrote
C28_Witness ==
    /\ last = Step("timeout", "conflict")
    /\ workspace.phase = "Running"
    /\ workspace.resourceVersion = 2
    /\ HasCondition(workspace.conditions, "Deployed", "True")
    /\ HasCondition(workspace.conditions, "BackupComplete", "True")
    /\ IndexOfType(workspace.conditions, "Timeout") = 0

(***************************************************************************)
(* SpecReason: the reason decide builds, as a function of the time the     *)
(* workspace has been Pending and of the Initialization timeout.           *)
(***************************************************************************)
\* durations up to MaxDuration, and those around twelve hours
Durations == (0..MaxDuration) \cup {1437, 1438, 1439, 1440}

\* timeouts of 30 seconds, 30 minutes, 59 and a half minutes and an hour
Limits == {1, 60, 119, 120}

InitReason ==
    /\ workspace = Workspace(WorkspacePhasePending, FALSE, <<>>)
    /\ pods = <<>>
    /\ now \in Durations
    /\ pre = workspace
    /\ last = Step("init", "")
    /\ sr = Idle
    /\ tr = Idle
    /\ cfg \in {[Configuration EXCEPT !.Initialization = l] : l \in Limits}

DecideReason ==
    /\ last.op = "init"
    /\ last' = Step("decide", decide(workspace.creationTimestamp, cfg.Initialization,
                                     activityInit, now))
    /\ UNCHANGED <<workspace, pods, now, pre, sr, tr, cfg>>

NextReason == DecideReason

SpecReason == InitReason /\ [][NextReason]_vars

(***************************************************************************)
(* Properties of the reason, checked under SpecReason.                     *)
(***************************************************************************)
DecimalDigits == <<"0", "1", "2", "3", "4", "5", "6", "7", "8", "9">>

\* a number below 100 in two digits
TwoDigits(n) == DecimalDigits[(n \div 10) + 1] \o DecimalDigits[(n % 10) + 1]

\* d, in units of 30 seconds, to the nearest minute, half a minute up
NearestMinute(d) == CHOOSE m \in 0..d : 2 * m - d \in {0, 1}

\* hours and minutes of a duration, as hh'h'mm'm'
HoursAndMinutes(d) ==
    LET m == NearestMinute(d)
    IN  TwoDigits(m \div 60) \o "h" \o TwoDigits(m % 60) \o "m"

PodFailedWithReason(pod) ==
    pod.phase = "Failed" /\ (pod.reason # "" \/ pod.message # "")

\* a pass on one pod, not being deleted, with one container status, where
\* no Failed condition was there to stick to and the pod itself gives no
\* reason
OneContainerPass ==
    /\ Passed
    /\ OnePod
    /\ Len(pods[1].containerStatuses) = 1
    /\ ~PodFailedWithReason(pods[1])
    /\ ~HasCondition(pre.conditions, "Failed", "True")

\* C32: for a pod that is not being deleted, a terminated container with
\* an empty message and a reason other than Completed makes the pass set
\* Failed exactly when its exit code is neither 137 nor 255.
C32_SentinelExitCodes ==
    (OneContainerPass /\ pods[1].deletionTimestamp = NoTime
            /\ TerminationState(pods[1].containerStatuses[1]).kind = "terminated"
            /\ TerminationState(pods[1].containerStatuses[1]).message = <<>>
            /\ TerminationState(pods[1].containerStatuses[1]).reason # "Completed")
        => (HasCondition(workspace.conditions, "Failed", "True")
              <=> TerminationState(pods[1].containerStatuses[1]).exitCode
                     \notin {containerKilledExitCode, containerUnknownExitCode})

\* C33: a container terminated with reason Completed, with exit code 0 or
\* an empty message, makes the pass set Failed when the pod is not being
\* deleted and the workspace is not headless, and not when the workspace
\* is headless or the pod is being deleted.
C33_CompletedContainer ==
    (OneContainerPass
            /\ TerminationState(pods[1].containerStatuses[1]).kind = "terminated"
            /\ TerminationState(pods[1].containerStatuses[1]).reason = "Completed"
            /\ ~TerminatedWithMessage(pods[1].containerStatuses[1]))
        => (HasCondition(workspace.conditions, "Failed", "True")
              <=> (pods[1].deletionTimestamp = NoTime /\ ~pre.headless))

\* a workspace that is not headless, and its container completed
C33_Witness ==
    /\ last.op = "pass"
    /\ OneContainerPass
    /\ pods[1].deletionTimestamp = NoTime
    /\ pods[1].phase = "Succeeded"
    /\ pods[1].containerStatuses[1].state.reason = "Completed"
    /\ ~pre.headless
    /\ HasCondition(workspace.conditions, "Failed", "True")
    /\ GetCondition(workspace.conditions, "Failed").message =
          "container workspace completed; containers of a workspace pod are not supposed to do that"

\* C34: a pod in phase Failed with a reason or a message: a workspace
\* without Failed=True gets it, with "reason: message" of the pod as its
\* message whatever the container statuses say, and the pass ends in the
\* phase of the single-pod mapping: Stopping or Stopped for a pod being
\* deleted, else Stopping for a headless workspace, else Unknown.
C34_PodFailedWithReason ==
    (Passed /\ OnePod /\ PodFailedWithReason(pods[1]))
        => /\ ~HasCondition(pre.conditions, "Failed", "True")
                => /\ HasCondition(workspace.conditions, "Failed", "True")
                   /\ GetCondition(workspace.conditions, "Failed").message =
                         pods[1].reason \o ": " \o pods[1].message
           /\ workspace.phase =
                 IF pods[1].deletionTimestamp # NoTime
                 THEN (IF gitpodPodFinalizerName \notin pods[1].finalizers
                          \/ TerminalOutcome(pre.conditions)
                       THEN "Stopped" ELSE "Stopping")
                 ELSE IF pre.headless THEN "Stopping" ELSE "Unknown"

\* the evicted pod has a container that could not pull its image, which
\* would have given another message and forced the phase Creating
C34_Witness ==
    /\ last.op = "pass"
    /\ OnePod
    /\ PodFailedWithReason(pods[1])
    /\ pods[1].deletionTimestamp = NoTime
    /\ Len(pods[1].containerStatuses) = 1
    /\ PullFailed(pods[1].containerStatuses[1])
    /\ ~pre.headless
    /\ pre.phase = "Creating"
    /\ pre.conditions = <<>>
    /\ GetCondition(workspace.conditions, "Failed").message =
          "Evicted: node low on memory"
    /\ workspace.phase = "Unknown"

\* the conditions of the types a status pass has nothing to do with
OtherConditions(conds) ==
    SelectSeq(conds, LAMBDA c : c.type \notin {"Deployed", "Failed"})

\* C37: a status pass leaves the conditions of every type but Deployed
\* and Failed, and the fields other than phase, runtime and conditions,
\* as they were, and a workspace with Deployed=True keeps it, also on an
\* empty pod list.
C37_StatusPassFrame ==
    Passed =>
        /\ OtherConditions(workspace.conditions) = OtherConditions(pre.conditions)
        /\ [workspace EXCEPT !.phase = pre.phase, !.runtime = pre.runtime,
                             !.conditions = pre.conditions] = pre
        /\ HasCondition(pre.conditions, "Deployed", "True")
              => HasCondition(workspace.conditions, "Deployed", "True")

\* the pod of a timed out, closed workspace is gone
C37_Witness ==
    /\ last.op = "pass"
    /\ Len(pods) = 0
    /\ pre.phase = "Running"
    /\ workspace.phase = "Stopped"
    /\ HasCondition(workspace.conditions, "Deployed", "True")
    /\ HasCondition(workspace.conditions, "UserActivity", "True")
    /\ HasCondition(workspace.conditions, "Closed", "True")
    /\ HasCondition(workspace.conditions, "Timeout", "True")

\* C40: a pass on no pod or on one pod ends in one of the seven phases,
\* never in the empty one, also when extractFailure hands back the empty
\* phase.
C40_PhaseNeverEmpty ==
    (Passed /\ Len(pods) <= 1)
        => workspace.phase \in {"Pending", "Creating", "Initializing", "Running",
                                "Stopping", "Stopped", "Unknown"}

\* a pod being deleted whose container left a termination message, on a
\* workspace without a phase: extractFailure hands back the empty phase
C40_Witness ==
    /\ last.op = "pass"
    /\ OnePod
    /\ pods[1].deletionTimestamp # NoTime
    /\ Len(pods[1].containerStatuses) = 1
    /\ TerminatedWithMessage(pods[1].containerStatuses[1])
    /\ extractFailure(pre, pods[1]).phase = ""
    /\ pre.phase = ""
    /\ workspace.phase = "Stopping"

\* the conditions of the types the Timeout Reconciler has nothing to do with
ConditionsButTimeout(conds) ==
    SelectSeq(conds, LAMBDA c : c.type # "Timeout")

\* C36: a pass of the Timeout Reconciler leaves the phase, the runtime,
\* the spec and the conditions of every type but Timeout as they were; a
\* pass that only asked the policy, or found Timeout=True, leaves the
\* whole workspace as it was.
C36_TimeoutPassFrame ==
    PassDone =>
        /\ [workspace EXCEPT !.conditions = pre.conditions,
                             !.resourceVersion = pre.resourceVersion] = pre
        /\ ConditionsButTimeout(workspace.conditions)
              = ConditionsButTimeout(pre.conditions)
        /\ tr.outcome.updates = 0 => workspace = pre
        /\ workspace # pre => HasCondition(workspace.conditions, "Timeout", "True")

\* a closed workspace with activity gets the Timeout condition
C36_Witness ==
    /\ UpdateAnswered(NoError)
    /\ pre.phase = "Running"
    /\ HasCondition(pre.conditions, "UserActivity", "True")
    /\ HasCondition(pre.conditions, "Closed", "True")
    /\ Len(workspace.conditions) = Len(pre.conditions) + 1
    /\ HasCondition(workspace.conditions, "UserActivity", "True")
    /\ HasCondition(workspace.conditions, "Closed", "True")
    /\ HasCondition(workspace.conditions, "Timeout", "True")

\* C39: the text extractFailureFromLogs returns is built from one line of
\* the log tail: it is the text of some line that is a record with a
\* non-empty message, the error after the message being that line's own,
\* or the raw bytes; no member of a line scanned before and skipped shows
\* in it.
C39_OneLineOnly ==
    last.op = "extract" =>
        LET lines == LinesOf(Logs, 1, <<>>)
        IN  \/ last.outcome = BytesToString(Logs)
            \/ \E i \in 1..Len(lines) :
                    /\ IsRecordWithMessage(lines[i])
                    /\ last.outcome = RecordText(lines[i][1])

(***************************************************************************)
(* SpecLive: the two reconcilers of Spec, with the passes of the Timeout   *)
(* Reconciler executed again and again: every pass ends in a requeue       *)
(* (lines 67-69, or the error returned), so a pass that can start does     *)
(* start and a pass that has fetched the workspace does finish.  The       *)
(* Status Reconciler stops writing one version short of the bound, which   *)
(* leaves the Timeout Reconciler a version to write.                       *)
(***************************************************************************)
LiveStatusUpdate ==
    /\ StatusUpdate
    /\ workspace' # workspace => workspace.resourceVersion + 1 < MaxVersion

NextLive ==
    \/ Tick
    \/ PodsChange
    \/ StatusGet
    \/ LiveStatusUpdate
    \/ TimeoutGet
    \/ TimeoutUpdate

SpecLive ==
    /\ Init
    /\ [][NextLive]_vars
    /\ WF_vars(TimeoutGet)
    /\ WF_vars(TimeoutUpdate)

\* the policy gives a reason for the stored workspace and its pod
Due == isWorkspaceTimedOut(workspace, podOf(pods), cfg, now) # ""

\* C38: a workspace for which the policy keeps giving a reason gets
\* Timeout=True in the end, whatever the other writers did in between.
C38_EventuallyTimedOut ==
    <>[]Due => <>HasCondition(workspace.conditions, "Timeout", "True")

\* the Timeout condition written on a version another writer produced
C38_Witness ==
    /\ last = Step("timeout", "written")
    /\ workspace.resourceVersion = 2
    /\ Due
    /\ HasCondition(workspace.conditions, "Timeout", "True")
    /\ HasCondition(workspace.conditions, "Deployed", "True")

(***************************************************************************)
(* SpecGone: status passes on a new workspace whose pod, in whatever state *)
(* the cluster shows it, disappears between two passes.                    *)
(***************************************************************************)
InitGone ==
    /\ workspace \in {Workspace(p, h, <<>>) :
                        p \in {"", WorkspacePhasePending}, h \in BOOLEAN}
    /\ pods \in {<<p>> : p \in Pods}
    /\ now = 0
    /\ pre = workspace
    /\ last = Step("init", "")
    /\ sr = Idle
    /\ tr = Idle
    /\ cfg = Configuration

GonePass ==
    /\ now < MaxPasses
    /\ last.op # "pass"
    /\ pre' = workspace
    /\ workspace' = updateWorkspaceStatus(workspace, pods, now)
    /\ now' = now + 1
    /\ last' = Step("pass", "")
    /\ UNCHANGED <<pods, sr, tr, cfg>>

\* the pod is removed from the cluster
PodGone ==
    /\ last.op = "pass"
    /\ Len(pods) = 1
    /\ pods' = <<>>
    /\ last' = Step("pod gone", "")
    /\ UNCHANGED <<workspace, now, pre, sr, tr, cfg>>

NextGone == GonePass \/ PodGone

SpecGone == InitGone /\ [][NextGone]_vars

\* C35: a pass that finds no pod for a workspace an earlier pass on its
\* pod gave Deployed=True leaves the workspace in Stopped, whatever phase
\* the earlier pass left it in, Pending included.
C35_PodGone ==
    (last.op = "pass" /\ pods = <<>>
        /\ HasCondition(pre.conditions, "Deployed", "True"))
        => workspace.phase = "Stopped"

====
